---- MODULE Spec2Model ----
(***************************************************************************)
(* Task orchestration of the WhatsApp secretary backend: the tasks table   *)
(* (TaskStore), the asyncio queues of the TaskManager instances            *)
(* (DispatchQueue), the AgentService dispatcher loop, the execution        *)
(* wrapper BaseAgent.execute and the agent_logs table.                     *)
(*                                                                         *)
(* A Task object handed out by a TaskManager is detached: every            *)
(* TaskManager method closes its session before it returns.  The           *)
(* dispatcher therefore works on a copy (variable task); a db.commit() of  *)
(* the agent's own session does not write that copy back to the table.     *)
(***************************************************************************)
EXTENDS Integers, Sequences, FiniteSets, TLC

\* ---------------------------------------------------------------- bounds
MaxTasks == 1
MaxRouted == 1
MaxUpdates == 1
MaxPending == 3
MaxQueued == 2
MaxLimit == 2
MaxSubtasks == 2
MaxWords == 3
MaxStarts == 2
MaxAuth == 2
MaxNow == 3

\* ------------------------------------------------------ program constants
DefaultMaxRetries == 3
URGENT == 1
NORMAL == 5

None == "None"
Stamp == "now"

PENDING == "pending"
IN_PROGRESS == "in_progress"
WAITING_INPUT == "waiting_input"
WAITING_APPROVAL == "waiting_approval"
COMPLETED == "completed"
FAILED == "failed"
CANCELLED == "cancelled"

TaskStatus ==
    {PENDING, IN_PROGRESS, WAITING_INPUT, WAITING_APPROVAL, COMPLETED, FAILED, CANCELLED}

TRIAGE == "triage"
CONVERSATION_ARCHIVE == "conversation_archive"
APPOINTMENT_BOOKING == "appointment_booking"

\* One task type per registered agent and one no registered agent handles.
TaskType == {TRIAGE, CONVERSATION_ARCHIVE, APPOINTMENT_BOOKING}

TaskPriority == {NORMAL}

\* The TaskManager instances of the process: app.py, routers/conversations.py
\* and tasks/scheduled_tasks.py each construct their own.
AppManager == "app"
ConversationsManager == "conversations"
ScheduledManager == "scheduled"
Managers == {AppManager, ConversationsManager, ScheduledManager}

\* AgentService._register_agents: registration order.
agents == <<"orchestrator", "conversation_manager">>

VARIABLES
    tasks,        \* tasks table: id -> row
    next_id,      \* next autoincrement id of the tasks table
    task_queue,   \* manager -> its asyncio.Queue of task ids
    processing,   \* AgentService._processing
    pc,           \* position of the start_processing coroutine
    task_id,      \* its local task_id
    task,         \* its local (detached) Task object
    agent,        \* the agent process_task found
    agent_logs,   \* agent_logs table
    last,         \* the last TaskManager / route_task call and what it returned
    runs,         \* id -> Process invocations since the row last became pending
    updates,      \* update_task_status calls made so far
    listed,       \* the get_pending_tasks call whose result the caller holds
    routing,      \* what a triage task is about and what the orchestrator made of it
    loops,        \* start_processing call -> where that coroutine is
    auth          \* pending_authorizations table, its configuration and the clock

vars == <<tasks, next_id, task_queue, processing, pc, task_id, task, agent, agent_logs, last, runs,
          updates, listed, routing, loops, auth>>

NoTask == [status |-> None]

\* start_processing has not been called
NoLoops == [i \in 1..MaxStarts |-> [pc |-> "idle", task_id |-> 0]]

\* no authorization was ever requested; BOSS_PHONE_NUMBER is not configured
\* and AUTH_CODE_PHRASE has its default
NoAuth ==
    [rows |-> <<>>, now |-> 0, boss_phone |-> None, auth_code |-> "AIbyML.com",
     last |-> [op |-> "init", id |-> 0, ret |-> None, message |-> None, sender |-> None]]

NoList == [called |-> FALSE, limit |-> 0, task_type |-> None, rows |-> <<>>, result |-> <<>>]

Ids == DOMAIN tasks

\* ------------------------------------------------------------ TaskManager

\* Python values a caller passes as input_data, written as their literals:
\* the empty dict and a dict with one string entry.
EmptyDict == "{}"
MessageDict == "{'message': 'hi'}"
Inputs == {EmptyDict, MessageDict}

JSONDecodeError == "JSONDecodeError"

\* json.dumps on Inputs: the JSON text of the value
json_dumps(v) ==
    CASE v = EmptyDict -> "{}"
      [] v = MessageDict -> "{\"message\": \"hi\"}"

\* json.loads: the Python value of a JSON text, or JSONDecodeError
json_loads(text) ==
    CASE text = "{}" -> EmptyDict
      [] text = "{\"message\": \"hi\"}" -> MessageDict
      [] OTHER -> JSONDecodeError

\* mutant: the payload is stored as str(input_data), which is not JSON
create_task_input_repr(input_data) ==
    IF input_data # None /\ input_data # EmptyDict THEN input_data ELSE None

\* input_json = json.dumps(input_data) if input_data else None
create_task_input(input_data) ==
    IF input_data # None /\ input_data # EmptyDict THEN json_dumps(input_data) ELSE None

\* BaseAgent.parse_input_data: the dict an agent reads from a row
parse_input_data(t) ==
    IF t.input_data # None /\ t.input_data # ""
    THEN IF json_loads(t.input_data) = JSONDecodeError THEN EmptyDict
         ELSE json_loads(t.input_data)
    ELSE EmptyDict

\* created_at defaults to the database's now(), which has a resolution of one
\* second: a new row gets the newest timestamp in the table or a later one
LatestCreatedAt ==
    IF Ids = {} THEN 0
    ELSE CHOOSE c \in {tasks[i].created_at : i \in Ids} :
             \A i \in Ids : tasks[i].created_at <= c

\* Task(...) as create_task builds it, with the column defaults.
\* parent_task_id 0 stands for NULL: the task has no parent.
NewTask(task_type, chat_id, message_id, priority, input_data, created_at) ==
    [task_type |-> task_type,
     status |-> PENDING,
     priority |-> priority,
     chat_id |-> chat_id,
     message_id |-> message_id,
     input_data |-> create_task_input(input_data),
     created_at |-> created_at,
     parent_task_id |-> 0,
     step_number |-> 1,
     total_steps |-> 1,
     assigned_agent |-> None,
     output_data |-> None,
     error_message |-> None,
     started_at |-> None,
     completed_at |-> None,
     retry_count |-> 0,
     max_retries |-> DefaultMaxRetries]

Count(q, id) == Cardinality({i \in DOMAIN q : q[i] = id})

\* a call record; arg is the input_data a create_task call or the reason a
\* cancel_task call was given, prev the status cancel_task found the row in
\* parent is the id of the parent a create_subtask call was given
Call(op, id, ret) ==
    [op |-> op, id |-> id, ret |-> ret, arg |-> None, prev |-> None, parent |-> 0]

\* history: a row that becomes pending starts a new Pending period
RunsAfter(id, old, new) ==
    IF old # PENDING /\ new = PENDING THEN [runs EXCEPT ![id] = 0] ELSE runs

DispatcherUnchanged == UNCHANGED <<processing, pc, task_id, task, agent, routing, loops, auth>>

\* mutant: put(task.id) is reached whether or not the commit succeeded
create_task_queue_always(q, id, committed) == Append(q, id)

\* the queue after create_task: put(task.id) follows a successful commit only
create_task_queue(q, id, committed) ==
    IF committed THEN Append(q, id) ELSE q

\* the table after create_task: db.add + db.commit, or rollback
create_task_rows(rows, id, task_type, chat_id, message_id, priority, input_data, created_at, committed) ==
    IF committed
    THEN (id :> NewTask(task_type, chat_id, message_id, priority, input_data, created_at))
             @@ rows
    ELSE rows

create_task(m, task_type, chat_id, message_id, priority, input_data, created_at, committed) ==
    /\ tasks' = create_task_rows(tasks, next_id, task_type, chat_id, message_id, priority,
                                 input_data, created_at, committed)
    /\ task_queue' = [task_queue EXCEPT
                         ![m] = create_task_queue(@, next_id, committed)]
    /\ next_id' = IF committed THEN next_id + 1 ELSE next_id
    /\ runs' = IF committed THEN (next_id :> 0) @@ runs ELSE runs
    /\ last' = [Call("create_task", IF committed THEN next_id ELSE 0,
                     IF committed THEN "Task" ELSE None)
                    EXCEPT !.arg = input_data]
    /\ UNCHANGED <<agent_logs, updates, listed>>
    /\ DispatcherUnchanged

\* the timestamps now() can give a row created in the current state
CreatedAts ==
    IF Ids = {} THEN {1} ELSE {LatestCreatedAt, LatestCreatedAt + 1}

CreateTask ==
    \E m \in Managers, tt \in TaskType, pr \in TaskPriority,
       created_at \in CreatedAts, committed \in BOOLEAN :
        /\ committed => next_id <= MaxTasks
        /\ create_task(m, tt, "c1", None, pr, MessageDict, created_at, committed)

\* create_task of a triage task through the app's manager, over the payloads
\* of Inputs
CreateTaskInput ==
    \E input_data \in Inputs :
        /\ next_id <= MaxTasks
        /\ create_task(AppManager, TRIAGE, "c1", None, NORMAL, input_data, 1, TRUE)

\* the row update_task_status commits
update_task_status_row(t, status, output_data, error_message) ==
    [t EXCEPT
        !.status = status,
        !.output_data = IF output_data # None THEN output_data ELSE @,
        !.error_message = IF error_message # None THEN error_message ELSE @,
        !.completed_at = IF status = COMPLETED THEN Stamp ELSE @]

update_task_status(id, status, output_data, error_message) ==
    /\ updates < MaxUpdates
    /\ updates' = updates + 1
    /\ IF id \in Ids
       THEN /\ tasks' = [tasks EXCEPT
                            ![id] = update_task_status_row(@, status, output_data, error_message)]
            /\ runs' = RunsAfter(id, tasks[id].status, status)
            /\ last' = Call("update_task_status", id, "True")
       ELSE /\ UNCHANGED <<tasks, runs>>
            /\ last' = Call("update_task_status", id, "False")
    /\ UNCHANGED <<next_id, task_queue, agent_logs, listed>>
    /\ DispatcherUnchanged

UpdateStatus ==
    \E id \in 1..next_id, status \in TaskStatus,
       output_data \in {None, "out"}, error_message \in {None, "err"} :
        update_task_status(id, status, output_data, error_message)

\* mutant: the status of the task is not tested
retry_allowed_any_status(t) ==
    ~(t.retry_count >= t.max_retries)

\* mutant: the budget test is > instead of >=
retry_allowed_off_by_one(t) ==
    /\ t.status = FAILED
    /\ ~(t.retry_count > t.max_retries)

\* whether retry_failed_task schedules a retry of row t
retry_allowed(t) ==
    /\ t.status = FAILED
    /\ ~(t.retry_count >= t.max_retries)

\* get_task: the row with this id, or no Task
get_task(rows, id) == IF id \in DOMAIN rows THEN rows[id] ELSE NoTask

\* the row retry_failed_task commits
retry_failed_task_row(t) ==
    [t EXCEPT
        !.status = PENDING,
        !.retry_count = @ + 1,
        !.error_message = None,
        !.started_at = None,
        !.completed_at = None]

retry_failed_task(m, id) ==
    /\ IF id \in Ids /\ retry_allowed(tasks[id])
       THEN /\ tasks' = [tasks EXCEPT ![id] = retry_failed_task_row(@)]
            /\ task_queue' = [task_queue EXCEPT ![m] = Append(@, id)]
            /\ runs' = RunsAfter(id, tasks[id].status, PENDING)
            /\ last' = Call("retry_failed_task", id, "True")
       ELSE /\ UNCHANGED <<tasks, task_queue, runs>>
            /\ last' = Call("retry_failed_task", id, "False")
    /\ UNCHANGED <<next_id, agent_logs, updates, listed>>
    /\ DispatcherUnchanged

RetryTask ==
    \E m \in Managers, id \in 1..next_id : retry_failed_task(m, id)

\* mutant: the reason is not written
cancel_task_row_no_message(t, reason) ==
    [t EXCEPT !.status = CANCELLED, !.completed_at = Stamp]

\* the row cancel_task commits
cancel_task_row(t, reason) ==
    [t EXCEPT
        !.status = CANCELLED,
        !.error_message = IF reason # "" THEN "Cancelled: " \o reason
                          ELSE "Cancelled by user",
        !.completed_at = Stamp]

cancel_task(id, reason) ==
    /\ IF id \in Ids
       THEN /\ tasks' = [tasks EXCEPT ![id] = cancel_task_row(@, reason)]
            /\ last' = [Call("cancel_task", id, "True")
                            EXCEPT !.arg = reason, !.prev = tasks[id].status]
       ELSE /\ UNCHANGED tasks
            /\ last' = [Call("cancel_task", id, "False") EXCEPT !.arg = reason]
    /\ UNCHANGED <<next_id, task_queue, agent_logs, runs, updates, listed>>
    /\ DispatcherUnchanged

CancelTask ==
    \E id \in 1..next_id, reason \in {"", "r"} : cancel_task(id, reason)

\* db.query(Task).filter(Task.status == status).count()
count_status(rows, status) == Cardinality({i \in DOMAIN rows : rows[i].status = status})

\* get_task_stats of manager m: a read of the table and of m's queue (the
\* average completion time is left out)
get_task_stats(m) ==
    [total |-> Cardinality(DOMAIN tasks),
     pending |-> count_status(tasks, PENDING),
     in_progress |-> count_status(tasks, IN_PROGRESS),
     completed |-> count_status(tasks, COMPLETED),
     failed |-> count_status(tasks, FAILED),
     cancelled |-> count_status(tasks, CANCELLED),
     queue_size |-> Len(task_queue[m])]

\* the rows the query of get_pending_tasks selects
PendingRows(rows, task_type) ==
    {i \in DOMAIN rows :
        /\ rows[i].status = PENDING
        /\ task_type # None => rows[i].task_type = task_type}

\* mutant: the query orders by priority descending
OrderedBefore_desc(rows, i, j) ==
    \/ rows[i].priority > rows[j].priority
    \/ rows[i].priority = rows[j].priority /\ rows[i].created_at < rows[j].created_at

\* ORDER BY priority ASC, created_at ASC puts row i strictly before row j
OrderedBefore(rows, i, j) ==
    \/ rows[i].priority < rows[j].priority
    \/ rows[i].priority = rows[j].priority /\ rows[i].created_at < rows[j].created_at

\* the orders the database may return the rows S in: rows with equal
\* priority and created_at come in any order
OrderBy(rows, S) ==
    {q \in [1..Cardinality(S) -> S] :
        /\ \A a, b \in DOMAIN q : a # b => q[a] # q[b]
        /\ \A a, b \in DOMAIN q : a < b => ~OrderedBefore(rows, q[b], q[a])}

\* .limit(limit)
Limit(q, limit) == SubSeq(q, 1, IF limit < Len(q) THEN limit ELSE Len(q))

get_pending_tasks(limit, task_type) ==
    /\ \E q \in OrderBy(tasks, PendingRows(tasks, task_type)) :
          listed' = [called |-> TRUE, limit |-> limit, task_type |-> task_type,
                     rows |-> tasks, result |-> Limit(q, limit)]
    /\ UNCHANGED <<tasks, next_id, task_queue, agent_logs, last, runs, updates>>
    /\ DispatcherUnchanged

ListPending ==
    \E limit \in 0..MaxLimit, task_type \in {None, TRIAGE, APPOINTMENT_BOOKING} :
        get_pending_tasks(limit, task_type)

\* the caller of get_pending_tasks is done with the list
ListReturn ==
    /\ listed.called
    /\ listed' = NoList
    /\ UNCHANGED <<tasks, next_id, task_queue, agent_logs, last, runs, updates>>
    /\ DispatcherUnchanged

\* ------------------------------------------------------------- BaseAgent

\* mutant: the orchestrator accepts a task of any type
can_handle_any(a, t) ==
    IF a = "orchestrator" THEN TRUE
    ELSE t.task_type = CONVERSATION_ARCHIVE

\* OrchestratorAgent.can_handle / ConversationManagerAgent.can_handle
can_handle(a, t) ==
    IF a = "orchestrator" THEN t.task_type = TRIAGE
    ELSE t.task_type = CONVERSATION_ARCHIVE

\* first registered agent whose can_handle is true, or None
_find_agent_for_task(t) ==
    IF \E i \in DOMAIN agents : can_handle(agents[i], t)
    THEN agents[CHOOSE i \in DOMAIN agents :
                   /\ can_handle(agents[i], t)
                   /\ \A j \in 1..(i - 1) : ~can_handle(agents[j], t)]
    ELSE None

\* mutant: the newest row is overwritten instead of a row being added
log_action_overwrite(logs, id, a, action) ==
    IF logs = <<>> THEN <<[task_id |-> id, agent_name |-> a, action |-> action]>>
    ELSE [logs EXCEPT ![Len(logs)] = [task_id |-> id, agent_name |-> a, action |-> action]]

\* AgentLog row written by log_action
log_action(logs, id, a, action) ==
    Append(logs, [task_id |-> id, agent_name |-> a, action |-> action])

\* execute, up to the call of process: the Task object it holds
execute_begin(t, a) ==
    [t EXCEPT !.status = IN_PROGRESS, !.started_at = Stamp, !.assigned_agent = a]

\* what execute writes to the tasks table before process is called: the Task
\* object belongs to no session, so db.commit() leaves the row as it is
execute_begin_row(row, t) == row

\* execute, after process returned or raised: the Task object it holds
execute_end(t, outcome) ==
    CASE outcome = "success" ->
            [t EXCEPT !.output_data = "out", !.status = COMPLETED, !.completed_at = Stamp]
      [] outcome = "failure" ->
            [t EXCEPT !.output_data = "{}", !.status = FAILED, !.error_message = "err"]
      [] OTHER ->
            [t EXCEPT !.status = FAILED, !.error_message = "exc"]

\* what execute writes to the tasks table after process: nothing, as above
execute_end_row(row, t) == row

\* the log rows execute appends after process
execute_end_logs(logs, id, a, outcome) ==
    CASE outcome = "success" ->
            log_action(log_action(logs, id, a, "completed"), id, a, "duration")
      [] outcome = "failure" ->
            log_action(log_action(logs, id, a, "failed"), id, a, "duration")
      [] OTHER ->
            log_action(logs, id, a, "error")

\* the row route_task commits when the Task object belongs to its session
route_task_row(t, to_agent, new_task_type) ==
    [t EXCEPT !.task_type = new_task_type, !.assigned_agent = to_agent, !.status = PENDING]

Routed == Cardinality({i \in DOMAIN agent_logs : agent_logs[i].action = "routed"})

\* route_task on a Task object: attached to the orchestrator's session (as a
\* subtask it has just created is) or detached (the one being processed)
route_task(id, to_agent, new_task_type, attached) ==
    /\ Routed < MaxRouted
    /\ id \in Ids
    /\ IF attached
       THEN /\ tasks' = [tasks EXCEPT ![id] = route_task_row(@, to_agent, new_task_type)]
            /\ runs' = RunsAfter(id, tasks[id].status, PENDING)
            /\ UNCHANGED task
       ELSE /\ pc = "process" /\ task_id = id /\ agent = "orchestrator"
            /\ task' = route_task_row(task, to_agent, new_task_type)
            /\ UNCHANGED <<tasks, runs>>
    /\ agent_logs' = log_action(agent_logs, id, "orchestrator", "routed")
    /\ last' = Call("route_task", id, "True")
    /\ UNCHANGED <<next_id, task_queue, processing, pc, task_id, agent, updates, listed, routing, loops, auth>>

RouteTask ==
    \E id \in Ids, attached \in BOOLEAN :
        route_task(id, "appointment", APPOINTMENT_BOOKING, attached)

Delegated == Cardinality({i \in DOMAIN agent_logs : agent_logs[i].action = "delegated"})

\* delegate_to_agent, called by the running agent on the Task object it was
\* given: the object is detached, so the commit writes nothing
delegate_to_agent(agent_type) ==
    /\ Delegated < MaxRouted
    /\ pc = "process"
    /\ task' = [task EXCEPT !.assigned_agent = agent_type]
    /\ agent_logs' = log_action(agent_logs, task_id, agent, "delegated")
    /\ UNCHANGED <<tasks, next_id, task_queue, processing, pc, task_id, agent, last, runs,
                   updates, listed, routing, loops, auth>>

DelegateTask == delegate_to_agent("appointment")

\* mutant: the subtask gets the step number of its parent
create_subtask_row_same_step(parent_task, parent_id, task_type, input_data, priority, created_at) ==
    [NewTask(task_type, parent_task.chat_id, parent_task.message_id, priority,
             input_data, created_at)
        EXCEPT !.input_data = json_dumps(input_data),
               !.parent_task_id = parent_id,
               !.step_number = parent_task.step_number,
               !.total_steps = parent_task.total_steps]

\* Task(...) as create_subtask builds it from the parent Task object
create_subtask_row(parent_task, parent_id, task_type, input_data, priority, created_at) ==
    [NewTask(task_type, parent_task.chat_id, parent_task.message_id, priority,
             input_data, created_at)
        EXCEPT !.input_data = json_dumps(input_data),
               !.parent_task_id = parent_id,
               !.step_number = parent_task.step_number + 1,
               !.total_steps = parent_task.total_steps]

Subtasks == {i \in Ids : tasks[i].parent_task_id # 0}

\* create_subtask, called by the running agent: the parent is the Task object
\* it was given or a subtask it holds; the new id goes to no queue
create_subtask(parent_id, task_type, input_data, priority, created_at, committed) ==
    /\ pc = "process"
    /\ parent_id = task_id \/ parent_id \in Subtasks
    /\ IF committed
       THEN /\ Cardinality(Subtasks) < MaxSubtasks
            /\ tasks' = (next_id :> create_subtask_row(
                                       IF parent_id = task_id THEN task ELSE tasks[parent_id],
                                       parent_id, task_type, input_data, priority,
                                       created_at)) @@ tasks
            /\ next_id' = next_id + 1
            /\ runs' = (next_id :> 0) @@ runs
            /\ agent_logs' = log_action(agent_logs, parent_id, agent, "subtask_created")
            /\ last' = [Call("create_subtask", next_id, "Task") EXCEPT !.parent = parent_id]
       ELSE /\ UNCHANGED <<tasks, next_id, runs, agent_logs>>
            /\ last' = [Call("create_subtask", 0, None) EXCEPT !.parent = parent_id]
    /\ UNCHANGED <<task_queue, processing, pc, task_id, task, agent, updates, listed, routing, loops, auth>>

CreateSubtask ==
    \E parent_id \in Ids, input_data \in Inputs, created_at \in CreatedAts,
       committed \in BOOLEAN :
        create_subtask(parent_id, APPOINTMENT_BOOKING, input_data, NORMAL, created_at,
                       committed)

\* ---------------------------------------------------------- AgentService

\* the while self._processing test at the top of the loop
LoopCheck == IF processing THEN "take" ELSE "stopped"

start_processing ==
    /\ ~processing
    /\ pc = "stopped"
    /\ processing' = TRUE
    /\ pc' = "take"
    /\ UNCHANGED <<tasks, next_id, task_queue, task_id, task, agent, agent_logs, last, runs, updates, listed, routing, loops, auth>>

stop_processing ==
    /\ processing
    /\ processing' = FALSE
    /\ UNCHANGED <<tasks, next_id, task_queue, pc, task_id, task, agent, agent_logs, last, runs, updates, listed, routing, loops, auth>>

\* wait_for(task_queue.get(), 1.0) timed out and the loop test failed
LoopExit ==
    /\ pc = "take"
    /\ ~processing
    /\ pc' = "stopped"
    /\ UNCHANGED <<tasks, next_id, task_queue, processing, task_id, task, agent, agent_logs, last, runs, updates, listed, routing, loops, auth>>

\* wait_for(task_queue.get(), 1.0) returned an id
Take ==
    /\ pc = "take"
    /\ task_queue[AppManager] # <<>>
    /\ task_id' = Head(task_queue[AppManager])
    /\ task_queue' = [task_queue EXCEPT ![AppManager] = Tail(@)]
    /\ pc' = "got"
    /\ UNCHANGED <<tasks, next_id, processing, task, agent, agent_logs, last, runs, updates, listed, routing, loops, auth>>

\* mutant: a row that is not pending is handed to an agent all the same
SkipStale_executes ==
    /\ pc = "got"
    /\ task_id \in Ids
    /\ tasks[task_id].status # PENDING
    /\ task' = tasks[task_id]
    /\ agent_logs' = log_action(agent_logs, task_id, "orchestrator", "started")
    /\ pc' = LoopCheck
    /\ UNCHANGED <<tasks, next_id, task_queue, processing, task_id, agent, last, runs, updates, listed, routing, loops, auth>>

\* get_task found no row, or one that is not pending: continue
SkipStale ==
    /\ pc = "got"
    /\ \/ task_id \notin Ids /\ task' = NoTask
       \/ task_id \in Ids /\ tasks[task_id].status # PENDING /\ task' = tasks[task_id]
    /\ pc' = LoopCheck
    /\ UNCHANGED <<tasks, next_id, task_queue, processing, task_id, agent, agent_logs, last, runs, updates, listed, routing, loops, auth>>

\* process_task found no agent: it returns an error dict and nothing else
NoAgent ==
    /\ pc = "got"
    /\ task_id \in Ids
    /\ tasks[task_id].status = PENDING
    /\ _find_agent_for_task(tasks[task_id]) = None
    /\ task' = tasks[task_id]
    /\ agent' = None
    /\ pc' = LoopCheck
    /\ UNCHANGED <<tasks, next_id, task_queue, processing, task_id, agent_logs, last, runs, updates, listed, routing, loops, auth>>

\* process_task found an agent: execute runs up to its await of process
ExecuteBegin ==
    /\ pc = "got"
    /\ task_id \in Ids
    /\ tasks[task_id].status = PENDING
    /\ _find_agent_for_task(tasks[task_id]) # None
    /\ agent' = _find_agent_for_task(tasks[task_id])
    /\ task' = execute_begin(tasks[task_id], agent')
    /\ tasks' = [tasks EXCEPT ![task_id] = execute_begin_row(@, task')]
    /\ agent_logs' = log_action(agent_logs, task_id, agent', "started")
    /\ runs' = [runs EXCEPT ![task_id] = @ + 1]
    /\ pc' = "process"
    /\ UNCHANGED <<next_id, task_queue, processing, task_id, last, updates, listed, routing, loops, auth>>

\* execute after process has returned (success or not) or raised
execute_return(outcome) ==
    /\ pc = "process"
    /\ task' = execute_end(task, outcome)
    /\ tasks' = IF task_id \in Ids
                THEN [tasks EXCEPT ![task_id] = execute_end_row(@, task')]
                ELSE tasks
    /\ agent_logs' = execute_end_logs(agent_logs, task_id, agent, outcome)
    /\ pc' = LoopCheck
    /\ UNCHANGED <<next_id, task_queue, processing, task_id, agent, last, runs, updates, listed, loops, auth>>

\* process returned (success or not) or raised: execute finishes
ExecuteEnd ==
    \E outcome \in {"success", "failure", "raise"} :
        execute_return(outcome) /\ UNCHANGED routing

\* ------------------------------------------------------------ Orchestrator

APPOINTMENT_RESCHEDULE == "appointment_reschedule"
APPOINTMENT_CANCEL == "appointment_cancel"
INFORMATION_QUERY == "information_query"
FILE_PROCESSING == "file_processing"
REMINDER == "reminder"
GENERAL_INQUIRY == "general_inquiry"

\* TaskType[name]: the member a name stands for, or KeyError
KeyError == "KeyError"
TaskTypeByName(name) ==
    CASE name = "APPOINTMENT_BOOKING" -> APPOINTMENT_BOOKING
      [] name = "APPOINTMENT_RESCHEDULE" -> APPOINTMENT_RESCHEDULE
      [] name = "APPOINTMENT_CANCEL" -> APPOINTMENT_CANCEL
      [] name = "INFORMATION_QUERY" -> INFORMATION_QUERY
      [] name = "FILE_PROCESSING" -> FILE_PROCESSING
      [] name = "REMINDER" -> REMINDER
      [] name = "GENERAL_INQUIRY" -> GENERAL_INQUIRY
      [] name = "TRIAGE" -> TRIAGE
      [] name = "CONVERSATION_ARCHIVE" -> CONVERSATION_ARCHIVE
      [] OTHER -> KeyError

appointment_keywords ==
    {"appointment", "book", "schedule", "reserve", "meeting", "reschedule", "cancel", "change",
     "available", "availability", "time slot", "calendar", "when can", "free time"}
reschedule_keywords == {"reschedule", "change", "move", "different time", "different date"}
cancel_keywords == {"cancel", "delete", "remove appointment"}
info_keywords ==
    {"what is", "how much", "price", "cost", "hours", "open", "location", "address", "where",
     "services", "what do you", "tell me about", "information", "details"}
greeting_keywords == {"hello", "hi", "hey", "good morning", "good afternoon", "good evening"}
file_keywords == {"send", "file", "document", "photo", "image", "picture", "attachment"}

\* A message text is the set of the words and phrases written in it; the
\* empty set is a text of white space only, which strip() turns into ''.
Words ==
    {"appointment", "book", "meeting", "cancel", "Cancel", "delete", "remove appointment",
     "reschedule", "change", "price", "cost", "hours", "file", "hello"}

Texts == {t \in SUBSET Words : Cardinality(t) <= MaxWords}

\* str.lower on a word
lower(w) == IF w = "Cancel" THEN "cancel" ELSE w

\* the keywords that are substrings of a lower-case word
Substrings(w) ==
    CASE w = "remove appointment" -> {"remove appointment", "appointment"}
      [] w = "reschedule" -> {"reschedule", "schedule"}
      [] OTHER -> {w}

\* sum(1 for keyword in keywords if keyword in message)
keyword_score(keywords, message) ==
    Cardinality({k \in keywords : \E w \in message : k \in Substrings(w)})

\* a dict with the keys of an intent analysis; keys holds the keys present.
\* confidence is in hundredths; is_number is false for a JSON string.
Analysis(task_type, agent_type, confidence, method) ==
    [task_type |-> task_type, agent_type |-> agent_type, confidence |-> confidence,
     is_number |-> TRUE, method |-> method,
     keys |-> {"task_type", "agent_type", "confidence", "method"}]

\* Python None where an analysis is expected
NoAnalysis ==
    [task_type |-> None, agent_type |-> None, confidence |-> 0, is_number |-> TRUE,
     method |-> None, keys |-> {}]

\* dict.get(key, default)
get(d, key, default) == IF key \in d.keys THEN d[key] ELSE default

Min(a, b) == IF a <= b THEN a ELSE b

\* mutant: the confidence grows with the score without a ceiling
keyword_confidence_uncapped(cap, base, score) == base + 10 * score

\* min(cap, base + 0.1 * score), in hundredths
keyword_confidence(cap, base, score) == Min(cap, base + 10 * score)

\* the scores _keyword_based_routing counts on the lower-case message
keyword_scores(message_lower) ==
    [appointment |-> keyword_score(appointment_keywords, message_lower),
     reschedule |-> keyword_score(reschedule_keywords, message_lower),
     cancel |-> keyword_score(cancel_keywords, message_lower),
     info |-> keyword_score(info_keywords, message_lower),
     greeting |-> keyword_score(greeting_keywords, message_lower),
     file |-> keyword_score(file_keywords, message_lower)]

_keyword_based_routing(message_lower) ==
    LET s == keyword_scores(message_lower)
    IN  IF s.cancel > 0 /\ s.appointment > 0
        THEN Analysis(APPOINTMENT_CANCEL, "appointment_agent",
                      keyword_confidence(90, 70, s.cancel), "keyword")
        ELSE IF s.reschedule > 0 /\ s.appointment > 0
        THEN Analysis(APPOINTMENT_RESCHEDULE, "appointment_agent",
                      keyword_confidence(90, 70, s.reschedule), "keyword")
        ELSE IF s.appointment >= 2
        THEN Analysis(APPOINTMENT_BOOKING, "appointment_agent",
                      keyword_confidence(90, 60, s.appointment), "keyword")
        ELSE IF s.info >= 2
        THEN Analysis(INFORMATION_QUERY, "inquiry_agent",
                      keyword_confidence(80, 60, s.info), "keyword")
        ELSE IF s.file >= 1
        THEN Analysis(FILE_PROCESSING, "file_agent", 70, "keyword")
        ELSE IF s.greeting >= 1
        THEN Analysis(GENERAL_INQUIRY, "triage_agent", 80, "keyword")
        ELSE Analysis(GENERAL_INQUIRY, "inquiry_agent", 40, "fallback")

\* What llm_service.generate_response does, and the JSON value its text holds.
\* kind: the call raises; returns None; returns a dict without text; the text
\* is not JSON; the JSON is not an object; the JSON is an object (json), also
\* when wrapped in a ``` fence.
Reply(kind, json) == [kind |-> kind, json |-> json]

LlmReplies ==
    {Reply(k, NoAnalysis) : k \in {"raise", "none", "no_text", "unparsable", "not_object", "object"}}
    \cup {Reply(k, [Analysis("APPOINTMENT_BOOKING", "appointment_agent", 95, None)
                       EXCEPT !.keys = @ \ {"method"}]) : k \in {"object", "fenced_object"}}
    \cup {Reply("object", [Analysis("SMALL_TALK", "inquiry_agent", 60, None)
                              EXCEPT !.keys = @ \ {"method"}]),
          Reply("object", [Analysis("REMINDER", "triage_agent", 70, None)
                              EXCEPT !.keys = @ \ {"method"}]),
          Reply("object", [Analysis("INFORMATION_QUERY", "inquiry_agent", 150, None)
                              EXCEPT !.keys = @ \ {"method"}]),
          Reply("object", [Analysis("INFORMATION_QUERY", "inquiry_agent", 0, None)
                              EXCEPT !.keys = @ \ {"method"}, !.is_number = FALSE])}

\* mutant: a failed classification comes back as a default analysis
_llm_based_routing_default(reply) ==
    IF reply.kind \in {"object", "fenced_object"}
    THEN LET task_type_str == get(reply.json, "task_type", "GENERAL_INQUIRY")
             task_type == IF TaskTypeByName(task_type_str) = KeyError THEN GENERAL_INQUIRY
                          ELSE TaskTypeByName(task_type_str)
         IN  [reply.json EXCEPT !.task_type = task_type, !.method = "llm",
                                !.keys = @ \cup {"task_type", "method"}]
    ELSE Analysis(GENERAL_INQUIRY, "inquiry_agent", 50, "llm")

\* _llm_based_routing once generate_response has answered: the analysis, or
\* None when the call raised, gave no text, or the text did not parse
_llm_based_routing(reply) ==
    IF reply.kind \in {"object", "fenced_object"}
    THEN LET task_type_str == get(reply.json, "task_type", "GENERAL_INQUIRY")
             task_type == IF TaskTypeByName(task_type_str) = KeyError THEN GENERAL_INQUIRY
                          ELSE TaskTypeByName(task_type_str)
         IN  [reply.json EXCEPT !.task_type = task_type, !.method = "llm",
                                !.keys = @ \cup {"task_type", "method"}]
    ELSE NoAnalysis

\* mutant: a keyword match of exactly 0.8 is accepted as well
keyword_accepted_inclusive(keyword_analysis) == get(keyword_analysis, "confidence", 0) >= 80

\* keyword_analysis.get('confidence', 0) > 0.8
keyword_accepted(keyword_analysis) == get(keyword_analysis, "confidence", 0) > 80

\* analyze_intent: the analysis it returns and the generate_response calls made
analyze_intent(message, llm_service, reply) ==
    LET message_lower == {lower(w) : w \in message}
        keyword_analysis == _keyword_based_routing(message_lower)
    IN  IF keyword_accepted(keyword_analysis)
        THEN [intent |-> keyword_analysis, llm_calls |-> 0]
        ELSE IF llm_service
        THEN [intent |-> IF _llm_based_routing(reply) # NoAnalysis
                         THEN _llm_based_routing(reply) ELSE keyword_analysis,
              llm_calls |-> 1]
        ELSE [intent |-> keyword_analysis, llm_calls |-> 0]

\* get_task_context: what context.get('message', {}) is.  A messages row
\* found under task.message_id gives a dict whose body is the row's (possibly
\* NULL) body; otherwise the entry comes from the task's input_data, where
\* create_task_from_message puts the text itself, a str.
context_message(t, row) ==
    IF t.message_id # None /\ row # "no_row"
    THEN IF row = "null_body" THEN "dict_null_body" ELSE "dict"
    ELSE IF parse_input_data(t) = MessageDict THEN "str" ELSE "absent"

\* the result dict of process when nothing is analysed
NoData ==
    [success |-> FALSE, data |-> FALSE, routed_to |-> None, confidence |-> 0]

\* OrchestratorAgent.process: how it ends, the dict it returns, the intent
\* analysis behind it and the generate_response calls it made
process(t, row, text, llm_service, reply) ==
    LET message == context_message(t, row)
        a == analyze_intent(text, llm_service, reply)
    IN  IF message \in {"str", "dict_null_body"}
        THEN \* str has no get; None has no strip
             [outcome |-> "raise", result |-> NoData, intent |-> NoAnalysis, llm_calls |-> 0,
              analysed |-> FALSE]
        ELSE IF message = "absent" \/ text = {}
        THEN [outcome |-> "failure", result |-> NoData, intent |-> NoAnalysis, llm_calls |-> 0,
              analysed |-> FALSE]
        ELSE IF ~a.intent.is_number /\ "confidence" \in a.intent.keys
        THEN \* the format {confidence:.2f} raises on a str
             [outcome |-> "raise", result |-> NoData, intent |-> a.intent,
              llm_calls |-> a.llm_calls, analysed |-> TRUE]
        ELSE [outcome |-> "success",
              result |-> [success |-> TRUE, data |-> TRUE,
                          routed_to |-> get(a.intent, "agent_type", "general"),
                          confidence |-> get(a.intent, "confidence", 50)],
              intent |-> a.intent, llm_calls |-> a.llm_calls, analysed |-> TRUE]

\* no triage task has been created
NoRouting ==
    [created |-> FALSE, done |-> FALSE, text |-> {}, row |-> "no_row", llm_service |-> FALSE,
     reply |-> Reply("none", NoAnalysis), scores |-> keyword_scores({}),
     keyword |-> NoAnalysis, analysed |-> FALSE, intent |-> NoAnalysis, llm_calls |-> 0,
     outcome |-> None, result |-> NoData]

\* a message arrives: its text, and whether the messages table gets a row for
\* it (with or without a body)
ReceiveMessage ==
    \E text \in Texts, row \in {"no_row", "null_body", "body"} :
        /\ ~routing.created
        /\ routing' = [routing EXCEPT !.created = TRUE, !.text = text, !.row = row]
        /\ UNCHANGED <<tasks, next_id, task_queue, processing, pc, task_id, task, agent,
                       agent_logs, last, runs, updates, listed, loops, auth>>

\* a triage task for the message, with or without the message's id
CreateTriage ==
    \E input_data \in Inputs, message_id \in {None, "m1"} :
        /\ routing.created
        /\ next_id <= MaxTasks
        /\ message_id = None => routing.row = "no_row"
        /\ create_task(AppManager, TRIAGE, "c1", message_id, NORMAL, input_data,
                       LatestCreatedAt, TRUE)

\* How execute ends for what process did.  The data of a successful result
\* holds the intent analysis, whose task_type is a TaskType member:
\* json.dumps(result.get('data', {})) raises TypeError on it.
execute_outcome(p) == IF p.outcome = "success" THEN "raise" ELSE p.outcome

\* process of the orchestrator returns or raises, and execute finishes
TriageEnd ==
    \E reply \in LlmReplies :
        LET p == process(task, routing.row, routing.text, routing.llm_service, reply)
            message_lower == {lower(w) : w \in routing.text}
        IN  /\ routing.created
            /\ agent = "orchestrator"
            /\ execute_return(execute_outcome(p))
            /\ routing' = [routing EXCEPT
                              !.done = TRUE,
                              !.reply = IF p.llm_calls > 0 THEN reply ELSE @,
                              !.scores = IF p.analysed THEN keyword_scores(message_lower)
                                         ELSE @,
                              !.keyword = IF p.analysed
                                          THEN _keyword_based_routing(message_lower) ELSE @,
                              !.analysed = p.analysed,
                              !.intent = p.intent,
                              !.llm_calls = p.llm_calls,
                              !.outcome = p.outcome,
                              !.result = p.result]

\* ------------------------------------------------------------------ system

Init ==
    /\ tasks = <<>>
    /\ next_id = 1
    /\ task_queue = [m \in Managers |-> <<>>]
    /\ processing = FALSE
    /\ pc = "stopped"
    /\ task_id = 0
    /\ task = NoTask
    /\ agent = None
    /\ agent_logs = <<>>
    /\ last = Call("init", 0, None)
    /\ runs = <<>>
    /\ updates = 0
    /\ listed = NoList
    /\ routing = NoRouting
    /\ loops = NoLoops
    /\ auth = NoAuth

Next ==
    \/ CreateTask
    \/ UpdateStatus
    \/ RetryTask
    \/ CancelTask
    \/ RouteTask
    \/ start_processing
    \/ stop_processing
    \/ LoopExit
    \/ Take
    \/ SkipStale
    \/ NoAgent
    \/ ExecuteBegin
    \/ ExecuteEnd

Spec == Init /\ [][Next]_vars

\* the system, its dispatcher never stopped, with create_task called over
\* the payloads of Inputs and agents that delegate
NextInput ==
    \/ CreateTaskInput
    \/ UpdateStatus
    \/ RetryTask
    \/ CancelTask
    \/ RouteTask
    \/ DelegateTask
    \/ start_processing
    \/ Take
    \/ SkipStale
    \/ NoAgent
    \/ ExecuteBegin
    \/ ExecuteEnd

SpecInput == Init /\ [][NextInput]_vars

\* several tasks of two priorities created through the app's manager
CreateTaskQueue ==
    \E tt \in {TRIAGE, APPOINTMENT_BOOKING}, pr \in {URGENT, NORMAL},
       created_at \in CreatedAts :
        /\ next_id <= MaxQueued
        /\ create_task(AppManager, tt, "c1", None, pr, MessageDict, created_at, TRUE)

\* the dispatcher over several queued tasks
NextQueue ==
    \/ CreateTaskQueue
    \/ CancelTask
    \/ start_processing
    \/ Take
    \/ SkipStale
    \/ NoAgent
    \/ ExecuteBegin
    \/ ExecuteEnd

SpecQueue == Init /\ [][NextQueue]_vars

CreateTaskList ==
    \E tt \in {TRIAGE, APPOINTMENT_BOOKING}, pr \in {URGENT, NORMAL},
       created_at \in CreatedAts :
        /\ next_id <= MaxPending
        /\ create_task(AppManager, tt, "c1", None, pr, MessageDict, created_at, TRUE)

\* cancel_task without a reason
CancelTaskList ==
    \E id \in Ids : cancel_task(id, "")

\* the pending list over several tasks, some of them cancelled; the caller
\* uses the list it got before anything else runs
NextList ==
    \/ ~listed.called /\ CreateTaskList
    \/ ~listed.called /\ CancelTaskList
    \/ ~listed.called /\ ListPending
    \/ ListReturn

SpecList == Init /\ [][NextList]_vars

\* a triage task of some chat, with or without an originating message
CreateTaskChat ==
    \E chat_id \in {"c1", "c2"}, message_id \in {None, "m1"} :
        /\ next_id <= MaxTasks
        /\ create_task(AppManager, TRIAGE, chat_id, message_id, NORMAL, MessageDict, 1, TRUE)

\* agents that create subtasks while they process a task
NextSubtask ==
    \/ CreateTaskChat
    \/ CancelTaskList
    \/ CreateSubtask
    \/ start_processing
    \/ Take
    \/ SkipStale
    \/ ExecuteBegin
    \/ ExecuteEnd

SpecSubtask == Init /\ [][NextSubtask]_vars

\* The orchestrator is built with an llm_service or without one; messages
\* arrive and triage tasks are created and executed for them.
InitTriage ==
    \E llm_service \in BOOLEAN :
        /\ tasks = <<>>
        /\ next_id = 1
        /\ task_queue = [m \in Managers |-> <<>>]
        /\ processing = FALSE
        /\ pc = "stopped"
        /\ task_id = 0
        /\ task = NoTask
        /\ agent = None
        /\ agent_logs = <<>>
        /\ last = Call("init", 0, None)
        /\ runs = <<>>
        /\ updates = 0
        /\ listed = NoList
        /\ routing = [NoRouting EXCEPT !.llm_service = llm_service]
        /\ loops = NoLoops
        /\ auth = NoAuth

NextTriage ==
    \/ ReceiveMessage
    \/ CreateTriage
    \/ start_processing
    \/ Take
    \/ ExecuteBegin
    \/ TriageEnd

SpecTriage == InitTriage /\ [][NextTriage]_vars

\* the rows cleanup_old_tasks deletes: finished and created before the cutoff
cleanup_old_tasks_deleted(rows, cutoff_date) ==
    {i \in DOMAIN rows :
        /\ rows[i].status \in {COMPLETED, FAILED, CANCELLED}
        /\ rows[i].created_at < cutoff_date}

\* str(n) of a row count
str(n) == CASE n = 0 -> "0" [] n = 1 -> "1" [] OTHER -> "2"

\* cleanup_old_tasks(days), with cutoff_date = now - days
cleanup_old_tasks(cutoff_date) ==
    LET deleted == cleanup_old_tasks_deleted(tasks, cutoff_date)
    IN  /\ tasks' = [i \in Ids \ deleted |-> tasks[i]]
        /\ last' = Call("cleanup_old_tasks", 0, str(Cardinality(deleted)))
        /\ UNCHANGED <<next_id, task_queue, agent_logs, runs, updates, listed>>
        /\ DispatcherUnchanged

\* a cutoff is at most the second after the newest row was created
CleanupTasks ==
    \E cutoff_date \in 1..(LatestCreatedAt + 1) : cleanup_old_tasks(cutoff_date)

\* the TaskManager with its housekeeping operation, beside the dispatcher
NextCleanup ==
    \/ CreateTaskQueue
    \/ CancelTaskList
    \/ CleanupTasks
    \/ start_processing
    \/ Take
    \/ SkipStale
    \/ NoAgent
    \/ ExecuteBegin
    \/ ExecuteEnd

SpecCleanup == Init /\ [][NextCleanup]_vars

\* start_processing called more than once on the one AgentService: call i is
\* a coroutine of its own, sharing _processing and the queue with the others.

\* the coroutines that are inside the while loop
Running == {i \in DOMAIN loops : loops[i].pc \in {"take", "got"}}

\* the while self._processing test, for one coroutine: the loop goes on or the
\* call returns
loop_check(flag) == IF flag THEN "take" ELSE "exited"

\* call i of start_processing, up to its first wait on the queue
start_processing_call(i) ==
    /\ loops[i].pc = "idle"
    /\ \A j \in 1..(i - 1) : loops[j].pc # "idle"
    /\ IF processing
       THEN /\ loops' = [loops EXCEPT ![i].pc = "refused"]
            /\ UNCHANGED processing
       ELSE /\ loops' = [loops EXCEPT ![i].pc = "take"]
            /\ processing' = TRUE
    /\ UNCHANGED <<tasks, next_id, task_queue, pc, task_id, task, agent, agent_logs, last, runs, updates, listed, routing, auth>>

StartCall == \E i \in DOMAIN loops : start_processing_call(i)

\* wait_for(task_queue.get(), 1.0) of coroutine i times out on the empty queue
loop_wait_timeout(i) ==
    /\ loops[i].pc = "take"
    /\ task_queue[AppManager] = <<>>
    /\ loops' = [loops EXCEPT ![i].pc = loop_check(processing)]
    /\ UNCHANGED <<tasks, next_id, task_queue, processing, pc, task_id, task, agent, agent_logs, last, runs, updates, listed, routing, auth>>

LoopTimeout == \E i \in DOMAIN loops : loop_wait_timeout(i)

\* wait_for(task_queue.get(), 1.0) of coroutine i returns an id
loop_take(i) ==
    /\ loops[i].pc = "take"
    /\ task_queue[AppManager] # <<>>
    /\ loops' = [loops EXCEPT ![i] = [pc |-> "got", task_id |-> Head(task_queue[AppManager])]]
    /\ task_queue' = [task_queue EXCEPT ![AppManager] = Tail(@)]
    /\ UNCHANGED <<tasks, next_id, processing, pc, task_id, task, agent, agent_logs, last, runs, updates, listed, routing, auth>>

LoopTake == \E i \in DOMAIN loops : loop_take(i)

\* coroutine i handles the id it took, to the end of the iteration: get_task
\* raises (the except clause of the loop sleeps and goes on), or the entry is
\* stale, or no agent is found, or an agent executes the task
loop_handle(i, outcome) ==
    LET id == loops[i].task_id
        t == get_task(tasks, id)
        a == _find_agent_for_task(t)
        executed == outcome # "loop_exception" /\ t.status = PENDING /\ a # None
    IN  /\ loops[i].pc = "got"
        /\ loops' = [loops EXCEPT ![i].pc = loop_check(processing)]
        /\ agent_logs' = IF executed
                         THEN execute_end_logs(log_action(agent_logs, id, a, "started"),
                                               id, a, outcome)
                         ELSE agent_logs
        /\ runs' = IF executed THEN [runs EXCEPT ![id] = @ + 1] ELSE runs
        /\ tasks' = IF executed
                    THEN [tasks EXCEPT ![id] = execute_end_row(execute_begin_row(@, t), t)]
                    ELSE tasks
        /\ UNCHANGED <<next_id, task_queue, processing, pc, task_id, task, agent, last, updates, listed, routing, auth>>

LoopHandle ==
    \E i \in DOMAIN loops, outcome \in {"success", "failure", "raise", "loop_exception"} :
        loop_handle(i, outcome)

NextLoops ==
    \/ CreateTaskQueue
    \/ StartCall
    \/ stop_processing
    \/ LoopTimeout
    \/ LoopTake
    \/ LoopHandle

SpecLoops == Init /\ [][NextLoops]_vars

\* every coroutine that can take a step of its loop takes it in the end
FairLoops ==
    \A i \in 1..MaxStarts :
        /\ WF_vars(loop_wait_timeout(i))
        /\ WF_vars(loop_take(i))
        /\ WF_vars(\E outcome \in {"success", "failure", "raise", "loop_exception"} :
                       loop_handle(i, outcome))

SpecLoopsFair == SpecLoops /\ FairLoops

\* ----------------------------------------------------- AuthorizationService

\* get_auth_timeout_minutes, in ticks of the clock
AuthTimeout == 1

\* values the settings router stores as BOSS_PHONE_NUMBER and AUTH_CODE_PHRASE
BossPhones == {None, "b1"}
Phrases == {"AIbyML.com", "Open"}

\* incoming messages: who sent them and what they say
Senders == {"b1", "x1"}
Messages == {"AIbyML.com", "aibyml.com", " AIbyML.com ", "open", "hello"}

\* str.strip on Messages
strip(m) == IF m = " AIbyML.com " THEN "AIbyML.com" ELSE m

\* str.lower on Messages and Phrases
str_lower(m) ==
    CASE m = "AIbyML.com" -> "aibyml.com"
      [] m = " AIbyML.com " -> " aibyml.com "
      [] m = "Open" -> "open"
      [] OTHER -> m

\* the call an AuthorizationService method leaves in auth.last
AuthCall(op, id, ret, message, sender) ==
    [op |-> op, id |-> id, ret |-> ret, message |-> message, sender |-> sender]

AuthUnchanged ==
    UNCHANGED <<tasks, next_id, task_queue, processing, pc, task_id, task, agent, agent_logs, last, runs, updates, listed, routing, loops>>

\* PendingAuthorization(...) as request_authorization builds it
NewAuthorization(auth_code, now) ==
    [status |-> "pending", auth_code |-> auth_code, created_at |-> now,
     expires_at |-> now + AuthTimeout, approved_by |-> None]

\* request_authorization: no row without a boss number or when the commit fails
request_authorization(committed) ==
    /\ committed => Len(auth.rows) < MaxAuth
    /\ auth' = IF auth.boss_phone # None /\ committed
               THEN [auth EXCEPT
                        !.rows = Append(@, NewAuthorization(auth.auth_code, auth.now)),
                        !.last = AuthCall("request_authorization", Len(auth.rows) + 1,
                                          "request_id", None, None)]
               ELSE [auth EXCEPT
                        !.last = AuthCall("request_authorization", 0, None, None, None)]
    /\ AuthUnchanged

RequestAuthorization == \E committed \in BOOLEAN : request_authorization(committed)

\* filter(status == "pending", expires_at > now)
approvable(rows, now) ==
    {i \in DOMAIN rows : rows[i].status = "pending" /\ rows[i].expires_at > now}

\* order_by(created_at.desc()).first(): the rows it may return
most_recent(rows, S) ==
    {i \in S : \A j \in S : rows[j].created_at <= rows[i].created_at}

\* message.strip().lower() != auth_code.lower() and the tests before it
authorization_response(message, sender_phone) ==
    /\ auth.boss_phone # None
    /\ sender_phone = auth.boss_phone
    /\ str_lower(strip(message)) = str_lower(auth.auth_code)

\* check_authorization_response; a send_message that raises after the commit
\* makes it return False with the approval stored
check_authorization_response(message, sender_phone) ==
    LET found == most_recent(auth.rows, approvable(auth.rows, auth.now))
    IN  /\ IF authorization_response(message, sender_phone) /\ found # {}
           THEN \E r \in found, ret \in {"True", "False"} :
                   auth' = [auth EXCEPT
                               !.rows[r].status = "approved",
                               !.rows[r].approved_by = sender_phone,
                               !.last = AuthCall("check_authorization_response", r, ret,
                                                 message, sender_phone)]
           ELSE auth' = [auth EXCEPT
                            !.last = AuthCall("check_authorization_response", 0, "False",
                                              message, sender_phone)]
        /\ AuthUnchanged

CheckAuthorizationResponse ==
    \E message \in Messages, sender_phone \in Senders :
        check_authorization_response(message, sender_phone)

\* is_action_authorized(request_id)
is_action_authorized(request_id) ==
    /\ auth' = [auth EXCEPT
                   !.last = AuthCall("is_action_authorized", request_id,
                                     IF /\ request_id \in DOMAIN auth.rows
                                        /\ auth.rows[request_id].status = "approved"
                                     THEN "True" ELSE "False",
                                     None, None)]
    /\ AuthUnchanged

IsActionAuthorized == \E request_id \in 1..MaxAuth : is_action_authorized(request_id)

\* cleanup_expired_authorizations
cleanup_expired_authorizations ==
    /\ auth' = [auth EXCEPT
                   !.rows = [i \in DOMAIN @ |->
                                IF @[i].status = "pending" /\ @[i].expires_at < auth.now
                                THEN [@[i] EXCEPT !.status = "expired"] ELSE @[i]],
                   !.last = AuthCall("cleanup_expired_authorizations", 0, None, None, None)]
    /\ AuthUnchanged

\* the settings router stores a boss number and a code phrase
UpdateAuthConfig ==
    \E boss_phone \in BossPhones, auth_code \in Phrases :
        /\ auth' = [auth EXCEPT
                       !.boss_phone = boss_phone,
                       !.auth_code = auth_code,
                       !.last = AuthCall("update_config", 0, None, None, None)]
        /\ AuthUnchanged

\* datetime.now() moves on
Tick ==
    /\ auth.now < MaxNow
    /\ auth' = [auth EXCEPT !.now = @ + 1, !.last = AuthCall("tick", 0, None, None, None)]
    /\ AuthUnchanged

NextAuth ==
    \/ UpdateAuthConfig
    \/ RequestAuthorization
    \/ CheckAuthorizationResponse
    \/ IsActionAuthorized
    \/ cleanup_expired_authorizations
    \/ Tick

SpecAuth == Init /\ [][NextAuth]_vars

\* The tasks table outlives the process and the queues do not: a row that an
\* earlier run failed and retried k times, found pending at start-up.
RECURSIVE RetriedRow(_)
RetriedRow(k) ==
    IF k = 0 THEN NewTask(TRIAGE, "c1", None, NORMAL, MessageDict, 1)
    ELSE retry_failed_task_row(
             update_task_status_row(RetriedRow(k - 1), FAILED, None, "err"))

InitRestart ==
    \/ Init
    \/ /\ \E k \in 1..DefaultMaxRetries : tasks = (1 :> RetriedRow(k))
       /\ next_id = 2
       /\ task_queue = [m \in Managers |-> <<>>]
       /\ processing = FALSE
       /\ pc = "stopped"
       /\ task_id = 0
       /\ task = NoTask
       /\ agent = None
       /\ agent_logs = <<>>
       /\ last = Call("init", 0, None)
       /\ runs = (1 :> 0)
       /\ updates = 0
       /\ listed = NoList
       /\ routing = NoRouting
       /\ loops = NoLoops
       /\ auth = NoAuth

SpecRestart == InitRestart /\ [][Next]_vars

\* ------------------------------------------------------------ properties

\* section 4.1 of the specification
LegalTransitions ==
    {<<PENDING, IN_PROGRESS>>,
     <<IN_PROGRESS, COMPLETED>>, <<IN_PROGRESS, FAILED>>,
     <<IN_PROGRESS, WAITING_INPUT>>, <<IN_PROGRESS, WAITING_APPROVAL>>,
     <<WAITING_INPUT, PENDING>>, <<WAITING_APPROVAL, PENDING>>,
     <<FAILED, PENDING>>,
     <<PENDING, CANCELLED>>, <<IN_PROGRESS, CANCELLED>>,
     <<WAITING_INPUT, CANCELLED>>, <<WAITING_APPROVAL, CANCELLED>>}

\* a call of operation op was made in this step; last.ret is what it returned:
\* "True", "False", None, or "Task" for the Task create_task returns
Called(op) == last' # last /\ last'.op = op

\* number of entries for id over all queues q
Queued(q, id) ==
    Count(q[AppManager], id) + Count(q[ConversationsManager], id)
        + Count(q[ScheduledManager], id)

PermanentlyTerminal(t) ==
    \/ t.status \in {COMPLETED, CANCELLED}
    \/ t.status = FAILED /\ t.retry_count = t.max_retries

\* C1: every change of a stored task status, by whichever operation, is one
\* of the transitions of section 4.1; any other request leaves the status
\* as it was.
C1_OnlyLegalTransitions ==
    [][\A id \in Ids :
          \/ tasks'[id].status = tasks[id].status
          \/ <<tasks[id].status, tasks'[id].status>> \in LegalTransitions]_vars

\* C2: once a task is Completed, Cancelled, or Failed with its retry budget
\* used up, no later call changes its status.
C2_TerminalIsPermanent ==
    [][\A id \in Ids :
          PermanentlyTerminal(tasks[id]) => tasks'[id].status = tasks[id].status]_vars

\* C3: within one Pending period of a task, Process is started at most once,
\* however many times its id was enqueued.
C3_AtMostOneExecution ==
    \A id \in Ids : runs[id] <= 1

\* C4: a successful CreateTask, through whichever TaskManager, puts the new
\* id into the queue the dispatcher loop consumes.
C4_CreatedTaskReachesDispatcher ==
    [][(Called("create_task") /\ last'.ret # None) =>
          Count(task_queue'[AppManager], last'.id)
              = Count(task_queue[AppManager], last'.id) + 1]_vars

\* every queued id has a row in the tasks table
QueuedIdsStored ==
    \A m \in Managers : \A i \in DOMAIN task_queue[m] : task_queue[m][i] \in Ids

\* what a create_task call leaves behind
CreateTaskEffect ==
    IF last'.ret = None
    THEN tasks' = tasks /\ task_queue' = task_queue
    ELSE /\ last'.id \notin Ids
         /\ DOMAIN tasks' = Ids \cup {last'.id}
         /\ tasks'[last'.id].status = PENDING
         /\ tasks'[last'.id].retry_count = 0
         /\ Queued(task_queue', last'.id) = 1
         /\ \A id \in Ids :
               tasks'[id] = tasks[id] /\ Queued(task_queue', id) = Queued(task_queue, id)

\* C5: an id is enqueued only once its row is stored: every queued id has a
\* row; a create_task whose commit fails stores and enqueues nothing; one
\* that succeeds leaves a pending row with retry_count 0, enqueued once.
C5_EnqueueAfterStore ==
    /\ []QueuedIdsStored
    /\ [][Called("create_task") => CreateTaskEffect]_vars

\* a failed create_task after a successful one: the stored task is pending,
\* not retried and queued once, and the failed call left no trace
C5_Witness ==
    /\ last.op = "create_task"
    /\ last.ret = None
    /\ \E id \in Ids :
          /\ tasks[id].status = PENDING
          /\ tasks[id].retry_count = 0
          /\ Queued(task_queue, id) = 1
          /\ Ids = {id}

\* C6: retry_count never exceeds max_retries, and a RetryTask call made at
\* retry_count = max_retries returns false and changes neither row nor queue.
C6_RetryBudget ==
    /\ [](\A id \in Ids : tasks[id].retry_count <= tasks[id].max_retries)
    /\ [][\A id \in Ids :
             (/\ Called("retry_failed_task")
              /\ last'.id = id
              /\ tasks[id].retry_count = tasks[id].max_retries)
             => (last'.ret = "False" /\ tasks' = tasks /\ task_queue' = task_queue)]_vars

\* a failed task with its budget used up, whose retry was refused
C6_Witness ==
    \E id \in Ids :
        /\ last = Call("retry_failed_task", id, "False")
        /\ tasks[id].status = FAILED
        /\ tasks[id].retry_count = tasks[id].max_retries
        /\ tasks[id].max_retries = DefaultMaxRetries

\* the dispatcher's last attempt on id has ended in failure and no call has
\* touched the row since the task was created or last retried
AttemptFailed(id) ==
    /\ pc \in {"take", "stopped"}
    /\ task_id = id
    /\ task.status = FAILED
    /\ updates = 0
    /\ Routed = 0
    /\ tasks[id].status # CANCELLED

\* C7: with max_retries = 3, a RetryTask call that follows a failed attempt
\* succeeds as long as fewer than three retries were made (and is refused
\* after the third).
C7_RetryAfterFailedAttempt ==
    [][\A id \in Ids :
          (/\ Called("retry_failed_task")
           /\ last'.id = id
           /\ AttemptFailed(id))
          => (last'.ret = "True" <=> tasks[id].retry_count < DefaultMaxRetries)]_vars

\* C8: RetryTask on a failed task with budget left returns true, leaves the
\* row pending with error_message, started_at, completed_at and output_data
\* cleared and retry_count one higher, and enqueues the id once more.
C8_RetryResetsTask ==
    [][\A id \in Ids :
          (/\ Called("retry_failed_task")
           /\ last'.id = id
           /\ tasks[id].status = FAILED
           /\ tasks[id].retry_count < tasks[id].max_retries)
          => (/\ last'.ret = "True"
              /\ tasks'[id].status = PENDING
              /\ tasks'[id].error_message = None
              /\ tasks'[id].started_at = None
              /\ tasks'[id].completed_at = None
              /\ tasks'[id].output_data = None
              /\ tasks'[id].retry_count = tasks[id].retry_count + 1
              /\ Queued(task_queue', id) = Queued(task_queue, id) + 1)]_vars

\* C9: completed_at is set exactly on terminal tasks: a Completed or
\* Cancelled task has it, and a task that has it is Completed, Failed or
\* Cancelled.
C9_CompletedAtIffTerminal ==
    \A id \in Ids :
        /\ tasks[id].status \in {COMPLETED, CANCELLED} => tasks[id].completed_at # None
        /\ tasks[id].completed_at # None => tasks[id].status \in {COMPLETED, FAILED, CANCELLED}

\* C10: when the dispatcher has dequeued a pending task that no registered
\* agent can handle, it leaves the row Failed with an error message.
C10_NoAgentFailsTask ==
    [][(/\ pc = "got"
        /\ pc' # "got"
        /\ task_id \in Ids
        /\ tasks[task_id].status = PENDING
        /\ _find_agent_for_task(tasks[task_id]) = None)
       => (/\ tasks'[task_id].status = FAILED
           /\ tasks'[task_id].error_message # None)]_vars

\* C11: once execute has returned for a pending task the dispatcher loaded,
\* the row in the tasks table is Completed or Failed and its assigned_agent is
\* the agent that ran it.
C11_OutcomePersisted ==
    [][(pc = "process" /\ pc' # "process" /\ task_id \in Ids)
       => (/\ tasks'[task_id].status \in {COMPLETED, FAILED}
           /\ tasks'[task_id].assigned_agent = agent)]_vars

\* C12: execute maps what process did onto the task: success gives Completed
\* with the data as output; success = False or an exception gives Failed with
\* an error message (the exception itself never leaves execute: the loop goes
\* on to its next iteration).
C12_ResultMapped ==
    [][(pc = "process" /\ pc' # "process" /\ task_id \in Ids)
       => (/\ pc' = LoopCheck
           /\ \/ /\ tasks'[task_id].status = COMPLETED
                 /\ tasks'[task_id].output_data = "out"
              \/ /\ tasks'[task_id].status = FAILED
                 /\ tasks'[task_id].error_message # None)]_vars

\* C13: the dispatcher takes, of the ids in its queue, the one whose task has
\* the lowest priority number, and among ids of equal priority the one
\* enqueued first.
C13_PriorityOrder ==
    [][(pc = "take" /\ pc' = "got")
       => LET q == task_queue[AppManager]
          IN \E k \in DOMAIN q :
                /\ q[k] = task_id'
                /\ \A j \in DOMAIN q : tasks[q[j]].priority >= tasks[q[k]].priority
                /\ \A j \in 1..(k - 1) : tasks[q[j]].priority > tasks[q[k]].priority]_vars

\* (priority, created_at) of row i is not after that of row j
KeyLeq(rows, i, j) ==
    \/ rows[i].priority < rows[j].priority
    \/ rows[i].priority = rows[j].priority /\ rows[i].created_at <= rows[j].created_at

\* C14: get_pending_tasks(limit, task_type) returns only pending tasks (of
\* the given type when one is given), each once, min(limit, number of such
\* tasks) of them, in (priority, created_at) ascending order, and no task left
\* out comes before a returned one in that order; so a priority-1 task
\* created after priority-5 tasks is first.
C14_ListPendingSorted ==
    listed.called =>
        LET rows == listed.rows
            r == listed.result
            matching == {i \in DOMAIN rows :
                            /\ rows[i].status = PENDING
                            /\ listed.task_type # None
                                   => rows[i].task_type = listed.task_type}
            returned == {r[k] : k \in DOMAIN r}
        IN /\ returned \subseteq matching
           /\ Cardinality(returned) = Len(r)
           /\ Len(r) <= listed.limit
           /\ Len(r) < listed.limit => returned = matching
           /\ \A a, b \in DOMAIN r : a < b => KeyLeq(rows, r[a], r[b])
           /\ \A i \in matching \ returned : \A k \in DOMAIN r : KeyLeq(rows, r[k], i)
           /\ (Len(r) > 0 /\ \E i \in matching : rows[i].priority = URGENT)
                  => rows[r[1]].priority = URGENT

\* two priority-5 tasks, then a priority-1 task, all pending: a list of
\* limit 2 starts with the priority-1 task and leaves one task out
C14_Witness ==
    /\ listed.called
    /\ listed.limit = 2
    /\ DOMAIN listed.rows = {1, 2, 3}
    /\ \A i \in {1, 2} : listed.rows[i].priority = NORMAL /\ listed.rows[i].status = PENDING
    /\ listed.rows[3].priority = URGENT
    /\ listed.rows[3].status = PENDING
    /\ listed.task_type = None
    /\ Len(listed.result) = 2
    /\ listed.result[1] = 3

\* a cancel_task call on a task that is Pending, InProgress, WaitingInput or
\* WaitingApproval
CancelOfLive(id) ==
    /\ Called("cancel_task")
    /\ last'.id = id
    /\ tasks[id].status \in {PENDING, IN_PROGRESS, WAITING_INPUT, WAITING_APPROVAL}

\* C15 as stated: cancel_task on a task in a non-terminal status returns
\* true, sets the status to Cancelled and error_message to the reason given.
C15_CancelRecordsReason ==
    [][\A id \in Ids :
          CancelOfLive(id)
          => (/\ last'.ret = "True"
              /\ tasks'[id].status = CANCELLED
              /\ tasks'[id].error_message = last'.arg)]_vars

\* C15 amended: cancel_task on a task in a non-terminal status returns true,
\* sets the status to Cancelled and error_message to "Cancelled: " followed
\* by the reason, or to "Cancelled by user" when the reason is empty.
C15_CancelRecordsPrefixedReason ==
    [][\A id \in Ids :
          CancelOfLive(id)
          => (/\ last'.ret = "True"
              /\ tasks'[id].status = CANCELLED
              /\ \/ last'.arg # "" /\ tasks'[id].error_message = "Cancelled: " \o last'.arg
                 \/ last'.arg = "" /\ tasks'[id].error_message = "Cancelled by user")]_vars

\* a task waiting for approval was cancelled with reason "r"
C15_Witness ==
    \E id \in Ids :
        /\ last.op = "cancel_task"
        /\ last.id = id
        /\ last.ret = "True"
        /\ last.arg = "r"
        /\ last.prev = WAITING_APPROVAL
        /\ tasks[id].status = CANCELLED
        /\ tasks[id].error_message = "Cancelled: r"

\* C16: a retry_failed_task call for an unknown id, or for a task whose
\* status is not Failed, returns false and changes neither the tasks table
\* (retry_count included) nor any queue.
C16_RetryRefusedFrame ==
    [][\A id \in 1..next_id :
          (/\ Called("retry_failed_task")
           /\ last'.id = id
           /\ id \in Ids => tasks[id].status # FAILED)
          => (/\ last'.ret = "False"
              /\ tasks' = tasks
              /\ task_queue' = task_queue)]_vars

\* a retry of a Completed task was refused: the task is still Completed, not
\* retried, and queued once
C16_Witness ==
    \E id \in Ids :
        /\ last = Call("retry_failed_task", id, "False")
        /\ tasks[id].status = COMPLETED
        /\ tasks[id].retry_count = 0
        /\ Queued(task_queue, id) = 1

\* C17: a cancel_task call made while process is running on the task does
\* not make the task Cancelled before process has finished (and once both
\* have finished the task is Cancelled).
C17_CancelWaitsForProcess ==
    [][(/\ pc = "process"
        /\ Called("cancel_task")
        /\ last'.id = task_id)
       => tasks'[task_id].status # CANCELLED]_vars

\* C18: output_data is written only in a step that leaves the task
\* Completed, so a task that has never completed has no output.
C18_OutputOnlyWhenCompleted ==
    [][\A id \in Ids :
          (tasks'[id].output_data # tasks[id].output_data /\ tasks'[id].output_data # None)
          => tasks'[id].status = COMPLETED]_vars

\* C19: a task has an error_message only while its status is Failed.
C19_ErrorOnlyWhenFailed ==
    \A id \in Ids : tasks[id].error_message # None => tasks[id].status = FAILED

DurationLogs(logs, id) ==
    Cardinality({i \in DOMAIN logs : logs[i].task_id = id /\ logs[i].action = "duration"})

\* C21: every call of execute appends exactly one 'duration' row to
\* agent_logs, whether process returned success, returned failure or raised.
C21_DurationAlwaysLogged ==
    [][(pc = "process" /\ pc' # "process")
       => DurationLogs(agent_logs', task_id) = DurationLogs(agent_logs, task_id) + 1]_vars

\* C22: a subtask create_subtask has stored is pending, has the parent's id
\* as parent_task_id, the parent's chat_id and message_id, and the parent's
\* step_number plus one; the parent's row is unchanged.
C22_SubtaskInheritsContext ==
    [][(Called("create_subtask") /\ last'.ret # None)
       => LET sub == last'.id
              parent == last'.parent
          IN /\ sub \notin Ids
             /\ sub \in DOMAIN tasks'
             /\ tasks'[sub].status = PENDING
             /\ tasks'[sub].parent_task_id = parent
             /\ tasks'[sub].chat_id = tasks[parent].chat_id
             /\ tasks'[sub].message_id = tasks[parent].message_id
             /\ tasks'[sub].step_number = tasks[parent].step_number + 1
             /\ tasks'[parent] = tasks[parent]]_vars

\* a subtask of a subtask of a task of chat c2 that came from message m1
C22_Witness ==
    \E sub \in Ids :
        /\ last.op = "create_subtask"
        /\ last.id = sub
        /\ tasks[sub].step_number = 3
        /\ tasks[sub].parent_task_id \in Ids
        /\ tasks[tasks[sub].parent_task_id].parent_task_id = 1
        /\ tasks[sub].chat_id = "c2"
        /\ tasks[sub].message_id = "m1"
        /\ tasks[1].step_number = 1

\* C23: create_subtask puts the id of the subtask it has stored into the
\* queue the dispatcher consumes, as create_task does.
C23_SubtaskEnqueued ==
    [][(Called("create_subtask") /\ last'.ret # None)
       => Count(task_queue'[AppManager], last'.id) = 1]_vars

C25_ClassifierOnlyWhenUnsure ==
    routing.analysed =>
        /\ routing.llm_calls > 0 <=> (routing.keyword.confidence <= 80 /\ routing.llm_service)
        /\ routing.keyword.confidence > 80 =>
               /\ routing.llm_calls = 0
               /\ routing.intent = routing.keyword

\* a confident keyword match with an llm_service at hand: no call is made
C25_Witness ==
    /\ routing.analysed
    /\ routing.llm_service
    /\ routing.keyword.confidence = 90
    /\ routing.llm_calls = 0
    /\ routing.intent = routing.keyword

\* C26: when generate_response is called and raises, returns nothing, or
\* returns text that cannot be parsed, the decision is exactly the heuristic
\* result (category, agent, confidence, method) and process does not raise
C26_ClassifierFailureFallsBack ==
    (/\ routing.analysed
     /\ routing.llm_calls > 0
     /\ routing.reply.kind \in {"raise", "none", "no_text", "unparsable", "not_object"})
        => /\ routing.intent = routing.keyword
           /\ routing.intent.method \in {"keyword", "fallback"}
           /\ routing.outcome = "success"
           /\ routing.result.routed_to = routing.keyword.agent_type
           /\ routing.result.confidence = routing.keyword.confidence

\* the classifier answers a greeting with text that is not JSON
C26_Witness ==
    /\ routing.analysed
    /\ routing.llm_calls = 1
    /\ routing.reply.kind = "unparsable"
    /\ routing.keyword.confidence = 80
    /\ routing.intent = routing.keyword
    /\ routing.outcome = "success"

\* C27: process returns success for every triage task, whatever its input, with
\* routed_to and confidence in the result, and execute never marks a triage
\* task failed
C27_TriageAlwaysSucceeds ==
    routing.done =>
        /\ routing.outcome = "success"
        /\ routing.result.success
        /\ routing.result.data
        /\ task.status # FAILED

\* the categories a routing decision may name
Categories ==
    {"appointment_booking", "appointment_reschedule", "appointment_cancel", "information_query",
     "file_processing", "general_inquiry"}

\* C28: every routing decision process returns has a confidence within [0, 1],
\* a method that is heuristic (keyword, fallback) or classifier (llm), an agent
\* name and one of the six categories
C28_DecisionWellFormed ==
    (routing.done /\ routing.outcome = "success") =>
        /\ {"task_type", "agent_type", "confidence", "method"} \subseteq routing.intent.keys
        /\ routing.intent.is_number
        /\ routing.intent.confidence \in 0..100
        /\ routing.result.confidence \in 0..100
        /\ routing.intent.method \in {"keyword", "fallback", "llm"}
        /\ routing.intent.agent_type # None
        /\ routing.intent.task_type \in Categories

\* C29: a triage task whose input holds the message text, with a cancel and an
\* appointment keyword in it and no llm_service, ends completed and routed to
\* the appointment agent with confidence >= 0.7 by the heuristic, whether or
\* not the messages table has the message
C29_InputTextClassified ==
    LET message_lower == {lower(w) : w \in routing.text}
    IN  (/\ routing.done
         /\ parse_input_data(task) = MessageDict
         /\ keyword_score(cancel_keywords, message_lower) > 0
         /\ keyword_score(appointment_keywords, message_lower) > 0
         /\ ~routing.llm_service)
            => /\ task.status = COMPLETED
               /\ routing.result.routed_to = "appointment_agent"
               /\ routing.result.confidence >= 70
               /\ routing.intent.method = "keyword"

\* C30: no operation of the TaskManager, the dispatcher or the agents deletes a
\* row of the tasks table: the set of task ids only grows
C30_NoTaskDeleted == [][Ids \subseteq DOMAIN tasks']_vars

\* C31: each logged event adds one row to agent_logs and no operation changes
\* or removes an existing row: the rows of any state are a prefix of the rows
\* of every later state
C31_LogAppendOnly ==
    [][/\ Len(agent_logs') >= Len(agent_logs)
       /\ SubSeq(agent_logs', 1, Len(agent_logs)) = agent_logs]_vars

\* an execution that logged started, completed and duration, in this order
C31_Witness ==
    /\ Len(agent_logs) >= 3
    /\ agent_logs[1].action = "started"
    /\ agent_logs[2].action = "completed"
    /\ agent_logs[3].action = "duration"

\* C32: while process runs on a task, the task is in progress with started_at
\* stamped and assigned_agent set to the running agent, and a started row is
\* in agent_logs
C32_InProgressBeforeProcess ==
    (pc = "process" /\ task_id \in Ids) =>
        /\ tasks[task_id].status = IN_PROGRESS
        /\ tasks[task_id].started_at # None
        /\ tasks[task_id].assigned_agent = agent
        /\ \E i \in DOMAIN agent_logs :
               /\ agent_logs[i].task_id = task_id
               /\ agent_logs[i].action = "started"

\* C33: when the dispatcher has taken an id whose row does not exist or is
\* not pending, its next step looks up and invokes no agent, changes no row of
\* tasks or agent_logs, and goes back to the top of the loop
C33_StaleEntrySkipped ==
    [][(/\ pc = "got"
        /\ pc' # "got"
        /\ get_task(tasks, task_id).status # PENDING)
       => /\ tasks' = tasks
          /\ agent_logs' = agent_logs
          /\ agent' = agent
          /\ runs' = runs
          /\ task_queue' = task_queue
          /\ pc' = LoopCheck]_vars

\* the loop is back at the top after an id whose row had been deleted
C33_Witness ==
    /\ pc = "take"
    /\ task_id > 0
    /\ task_id \notin Ids
    /\ task = NoTask
    /\ runs[task_id] = 0
    /\ agent_logs = <<>>

\* C34: for a pending task the dispatcher finds the first registered agent
\* whose can_handle is true, the orchestrator exactly for triage tasks, and no
\* agent when none can handle it; looking for an agent changes no row of
\* tasks, no queue and no log
C34_FindHandler ==
    [][(/\ pc = "got"
        /\ pc' # "got"
        /\ get_task(tasks, task_id).status = PENDING)
       => LET task_type == tasks[task_id].task_type
          IN  /\ agent' = CASE task_type = "triage" -> "orchestrator"
                             [] task_type = "conversation_archive" -> "conversation_manager"
                             [] OTHER -> "None"
              /\ agent' = "orchestrator" <=> task_type = "triage"
              /\ agent' = "None" =>
                     /\ tasks' = tasks
                     /\ task_queue' = task_queue
                     /\ agent_logs' = agent_logs
                     /\ pc' = LoopCheck
              /\ agent' # "None" => pc' = "process"]_vars

\* a pending booking task went through the dispatcher and found no agent
C34_Witness ==
    /\ pc # "got"
    /\ task.status = PENDING
    /\ task.task_type = APPOINTMENT_BOOKING
    /\ agent = None
    /\ agent_logs = <<>>

\* C35: in every reachable state a task whose status is in progress has
\* started_at set, whichever operation made the transition
C35_StartedAtWhenInProgress ==
    \A id \in Ids : tasks[id].status = IN_PROGRESS => tasks[id].started_at # None

\* C36: in every reachable state the per-status counts get_task_stats returns
\* add up to the total it returns, and its queue size is the number of ids in
\* the queue of that TaskManager
C36_StatsCoverEveryStatus ==
    \A m \in Managers :
        LET stats == get_task_stats(m)
        IN  /\ stats.pending + stats.in_progress + stats.completed + stats.failed
                   + stats.cancelled = stats.total
            /\ stats.queue_size = Len(task_queue[m])

\* C37: every task whose stored status is pending has its id in a dispatch
\* queue (of whichever TaskManager), or is the entry the dispatcher is handling
C37_PendingIsQueued ==
    \A id \in Ids :
        tasks[id].status = PENDING =>
            \/ Queued(task_queue, id) > 0
            \/ pc \in {"got", "process"} /\ task_id = id

\* C38: under every interleaving of start_processing and stop_processing calls
\* at most one dispatcher loop consumes the queue at any time
C38_AtMostOneLoop ==
    Cardinality(Running) <= 1

\* C39: an exception while a queue entry is handled does not end the loop: as
\* long as stop_processing has not been called a queued id is eventually
\* dequeued; and a loop that is running when stop_processing has been called
\* eventually exits
C39_LoopSurvivesAndStops ==
    /\ \A id \in 1..MaxQueued :
           (Running # {} /\ Count(task_queue[AppManager], id) > 0)
               ~> (Count(task_queue[AppManager], id) = 0 \/ ~processing)
    /\ \A i \in 1..MaxStarts :
           (i \in Running /\ ~processing) ~> (loops[i].pc = "exited")

\* C40: an authorization request only goes from pending to approved or to
\* expired and never changes afterwards; it is approved only by a message of
\* the configured boss number whose text is the request's auth code (case and
\* surrounding white space aside) before the request expires; such a message
\* approves the most recently created unexpired pending request and no other;
\* is_action_authorized is true only for approved requests
C40_AuthorizationGuarded ==
    [][/\ \A r \in DOMAIN auth.rows :
            LET old == auth.rows[r]
                new == auth'.rows[r]
            IN  /\ new.status # old.status =>
                       (old.status = "pending" /\ new.status \in {"approved", "expired"})
                /\ (old.status = "pending" /\ new.status = "approved") =>
                       /\ auth'.last.op = "check_authorization_response"
                       /\ auth.boss_phone # None
                       /\ auth'.last.sender = auth.boss_phone
                       /\ str_lower(strip(auth'.last.message)) = str_lower(old.auth_code)
                       /\ old.expires_at > auth.now
                       /\ \A j \in DOMAIN auth.rows :
                              (auth.rows[j].status = "pending"
                                  /\ auth.rows[j].expires_at > auth.now)
                              => auth.rows[j].created_at <= old.created_at
                       /\ \A j \in DOMAIN auth.rows \ {r} : auth'.rows[j] = auth.rows[j]
       /\ (auth'.last.op = "is_action_authorized" /\ auth'.last.ret = "True") =>
              auth.rows[auth'.last.id].status = "approved"]_vars

====
